---- MODULE Spec2Model ----
\* Smart Task Scheduler (src/main.py): the in-memory task store and its four
\* tools add_task, get_tasks, complete_task and get_task_recommendations.
EXTENDS Integers, Sequences, FiniteSets, TLC

VARIABLES
    tasks,         \* the module-level dict `tasks`, as its entries in insertion order
    now,           \* the last value datetime.now() returned (seconds after the first)
    op,            \* the tool call that ran last: [name, arg]
    ret,           \* what that call gave back: [raised, value]
    issued,        \* history: what every add_task call so far returned
    completedIds   \* history: the ids complete_task has completed so far

vars == <<tasks, now, op, ret, issued, completedIds>>

\* ---------------------------------------------------------------- bounds
MaxTasks == 3      \* add_task calls in Spec
MaxClock == 1      \* clock readings in Spec are 0..MaxClock
MaxRecTasks == 6   \* add_task calls in SpecRec

\* ---------------------------------------------------------------- values
None == "<None>"

\* top 5 tasks are recommended
TopN == 5

\* datetime.isoformat() of the instant t seconds after the process started
Isoformat(t) == "2024-01-01T00:00:0" \o ToString(t)

\* datetime.date().isoformat() of the same instant
DateIsoformat(t) == "2024-01-01"

Min(a, b) == IF a < b THEN a ELSE b

\* ---------------------------------------------------------------- dict
\* A Python dict keeps its keys in insertion order; assigning to an existing
\* key replaces the value in place, assigning to a new key appends.
DictLen(d) == Len(d)

DictHas(d, k) == \E i \in 1..Len(d) : d[i].key = k

DictIndex(d, k) == CHOOSE i \in 1..Len(d) : d[i].key = k

DictGet(d, k) == d[DictIndex(d, k)].val

DictSet(d, k, v) ==
    IF DictHas(d, k)
    THEN [d EXCEPT ![DictIndex(d, k)] = [key |-> k, val |-> v]]
    ELSE Append(d, [key |-> k, val |-> v])

\* slip: the values listed newest first
DictValuesReversed(d) == [i \in 1..Len(d) |-> d[Len(d) + 1 - i].val]

DictValues(d) == [i \in 1..Len(d) |-> d[i].val]

\* ---------------------------------------------------------------- Task
\* Task(...): status defaults to "pending", completed_at to None
NewTask(id, title, description, due_date, priority, created_at) ==
    [id |-> id, title |-> title, description |-> description,
     due_date |-> due_date, priority |-> priority, status |-> "pending",
     created_at |-> created_at, completed_at |-> None]

\* task.dict(): a fresh dict of the model's fields
TaskDict(t) ==
    [id |-> t.id, title |-> t.title, description |-> t.description,
     due_date |-> t.due_date, priority |-> t.priority, status |-> t.status,
     created_at |-> t.created_at, completed_at |-> t.completed_at]

Return(v) == [raised |-> "none", value |-> v]

Raise(e) == [raised |-> e, value |-> None]

\* ---------------------------------------------------------------- add_task
\* slip: the id numbered by the tasks still pending, not by all tasks
NewTaskIdByPending(d) ==
    "task_" \o ToString(Len(SelectSeq(d, LAMBDA e : e.val.status = "pending")) + 1)

NewTaskId(d) == "task_" \o ToString(DictLen(d) + 1)

AddTask(title, description, due_date, priority, t) ==
    LET task_id == NewTaskId(tasks)
        task == NewTask(task_id, title, description, due_date, priority,
                        Isoformat(t))
    IN  /\ tasks' = DictSet(tasks, task_id, task)
        /\ now' = t
        /\ op' = [name |-> "add_task", arg |-> title]
        /\ ret' = Return(TaskDict(task))
        /\ issued' = Append(issued, [before |-> DictLen(tasks),
                                     task |-> TaskDict(task)])
        /\ UNCHANGED completedIds

\* ---------------------------------------------------------------- get_tasks
\* slip: the status filter dropped
TasksUnfiltered(d, status) == [i \in 1..Len(d) |-> TaskDict(d[i].val)]

TasksWithStatus(d, status) ==
    IF status = "all"
    THEN [i \in 1..Len(d) |-> TaskDict(DictValues(d)[i])]
    ELSE LET sel == SelectSeq(DictValues(d), LAMBDA task : task.status = status)
         IN  [i \in 1..Len(sel) |-> TaskDict(sel[i])]

GetTasks(status) ==
    /\ op' = [name |-> "get_tasks", arg |-> status]
    /\ ret' = Return(TasksWithStatus(tasks, status))
    /\ UNCHANGED <<tasks, now, issued, completedIds>>

\* ---------------------------------------------------------------- complete_task
\* slip: the status set, the timestamp forgotten
MarkCompletedNoStamp(task, stamp) == [task EXCEPT !.status = "completed"]

\* slip: completing a completed task reopens it
MarkToggled(task, stamp) ==
    IF task.status = "completed"
    THEN [task EXCEPT !.status = "pending", !.completed_at = None]
    ELSE [task EXCEPT !.status = "completed", !.completed_at = stamp]

MarkCompleted(task, stamp) ==
    [task EXCEPT !.status = "completed", !.completed_at = stamp]

\* slip: an unknown id creates a completed task instead of reporting it
CompleteTaskUpsert(task_id, t) ==
    LET old == IF DictHas(tasks, task_id)
               THEN DictGet(tasks, task_id)
               ELSE [id |-> task_id, title |-> "", description |-> "",
                     due_date |-> "", priority |-> "", status |-> "pending",
                     created_at |-> Isoformat(t), completed_at |-> None]
        task == [old EXCEPT !.status = "completed", !.completed_at = Isoformat(t)]
    IN  /\ op' = [name |-> "complete_task", arg |-> task_id]
        /\ tasks' = DictSet(tasks, task_id, task)
        /\ now' = t
        /\ ret' = Return(TaskDict(task))
        /\ completedIds' = completedIds \cup {task_id}
        /\ UNCHANGED issued

CompleteTask(task_id, t) ==
    /\ op' = [name |-> "complete_task", arg |-> task_id]
    /\ IF ~DictHas(tasks, task_id)
       THEN /\ ret' = Return([error |-> "Task not found"])
            /\ UNCHANGED <<tasks, now, issued, completedIds>>
       ELSE LET task == MarkCompleted(DictGet(tasks, task_id), Isoformat(t))
            IN  /\ tasks' = [tasks EXCEPT ![DictIndex(tasks, task_id)].val = task]
                /\ now' = t
                /\ ret' = Return(TaskDict(task))
                /\ completedIds' = completedIds \cup {task_id}
                /\ UNCHANGED issued

\* ---------------------------------------------------------------- get_task_recommendations
\* ord(c) of the characters the due dates are written with
CharCode(c) ==
    CASE c = "-" -> 45 [] c = "0" -> 48 [] c = "1" -> 49 [] c = "2" -> 50
      [] c = "3" -> 51 [] c = "4" -> 52 [] c = "5" -> 53 [] c = "6" -> 54
      [] c = "7" -> 55 [] c = "8" -> 56 [] c = "9" -> 57

\* Python's a < b on str: by code point, a proper prefix is smaller
RECURSIVE StrLessFrom(_, _, _)
StrLessFrom(a, b, i) ==
    IF i > Len(b) THEN FALSE
    ELSE IF i > Len(a) THEN TRUE
    ELSE LET ca == CharCode(SubSeq(a, i, i))
             cb == CharCode(SubSeq(b, i, i))
         IN  IF ca < cb THEN TRUE
             ELSE IF ca > cb THEN FALSE
             ELSE StrLessFrom(a, b, i + 1)

StrLess(a, b) == StrLessFrom(a, b, 1)

\* the keys of the literal {"high": 0, "medium": 1, "low": 2}
RankKeys == {"high", "medium", "low"}

PriorityRank(p) ==
    CASE p = "high" -> 0 [] p = "medium" -> 1 [] p = "low" -> 2

\* the sort key (rank, due_date) and Python's tuple comparison on it
SortKey(x) == <<PriorityRank(x.priority), x.due_date>>

\* slip: the due date left out of the comparison
KeyLessRankOnly(k1, k2) == k1[1] < k2[1]

KeyLess(k1, k2) ==
    \/ k1[1] < k2[1]
    \/ k1[1] = k2[1] /\ StrLess(k1[2], k2[2])

\* sorted() is stable: x goes before the first element whose key is greater
RECURSIVE InsertSorted(_, _)
InsertSorted(s, x) ==
    IF s = <<>> THEN <<x>>
    ELSE IF KeyLess(SortKey(x), SortKey(Head(s)))
         THEN <<x>> \o s
         ELSE <<Head(s)>> \o InsertSorted(Tail(s), x)

RECURSIVE Sorted(_)
Sorted(s) ==
    IF s = <<>> THEN <<>>
    ELSE InsertSorted(Sorted(SubSeq(s, 1, Len(s) - 1)), s[Len(s)])

\* slip: every task taken, pending or not
AllTasks(d) == DictValues(d)

PendingTasks(d) == SelectSeq(DictValues(d), LAMBDA task : task.status = "pending")

Reason(task) ==
    IF task.priority = "high" THEN "High priority task due on " \o task.due_date
    ELSE IF task.priority = "medium"
         THEN "Medium priority task due on " \o task.due_date
         ELSE "Low priority task due on " \o task.due_date

Recommendation(task) ==
    [task_id |-> task.id, title |-> task.title, priority |-> task.priority,
     due_date |-> task.due_date, reason |-> Reason(task)]

\* sorted_tasks[:5]
Top(s) == SubSeq(s, 1, Min(TopN, Len(s)))

\* the list comprehension over sorted_tasks[:5]
Recommendations(top) == [i \in 1..Len(top) |-> Recommendation(top[i])]

\* the dict lookup in the sort key fails on a priority that is not a key
KeyFails(pending_tasks) ==
    \E i \in 1..Len(pending_tasks) : pending_tasks[i].priority \notin RankKeys

Recommend(pending_tasks, resolved) ==
    IF KeyFails(pending_tasks)
    THEN Raise("KeyError")
    ELSE Return([date |-> resolved,
                 recommended_tasks |-> Recommendations(Top(Sorted(pending_tasks)))])

GetTaskRecommendations(date, t) ==
    /\ op' = [name |-> "get_task_recommendations", arg |-> date]
    /\ now' = IF date = "today" THEN t ELSE now
    /\ ret' = Recommend(PendingTasks(tasks),
                        IF date = "today" THEN DateIsoformat(t) ELSE date)
    /\ UNCHANGED <<tasks, issued, completedIds>>

\* ---------------------------------------------------------------- specifications
Init ==
    /\ tasks = <<>>
    /\ now = 0
    /\ op = [name |-> "none", arg |-> ""]
    /\ ret = Return(None)
    /\ issued = <<>>
    /\ completedIds = {}

\* what datetime.now() can return next, up to max
Ticks(max) == {t \in {now, now + 1} : t <= max}

\* add_task arguments: title, description, due_date, priority
AddInputs ==
    { <<"A", "a", "2024-01-05", "medium">>,
      <<"B", "b", "2024-01-01", "urgent">> }

TaskIds(n) == {"task_" \o ToString(i) : i \in 1..n} \cup {"task_99"}

Statuses == {"all", "pending", "completed"}

Dates == {"today", "2024-02-01"}

Next ==
    \/ \E a \in AddInputs, t \in Ticks(MaxClock) :
          /\ DictLen(tasks) < MaxTasks
          /\ AddTask(a[1], a[2], a[3], a[4], t)
    \/ \E status \in Statuses : GetTasks(status)
    \/ \E task_id \in TaskIds(MaxTasks), t \in Ticks(MaxClock) :
          CompleteTask(task_id, t)
    \/ \E date \in Dates, t \in Ticks(MaxClock) :
          GetTaskRecommendations(date, t)

Spec == Init /\ [][Next]_vars

\* The recommendation engine under load: valid priorities only, the clock
\* standing still, and enough tasks for the top-5 cut to bite.
RecInputs ==
    { <<"A", "a", "2024-01-05", "high">>,
      <<"B", "b", "2024-01-01", "low">>,
      <<"C", "c", "2024-01-02", "high">> }

RecCompleteIds == {"task_1", "task_3", "task_99"}

NextRec ==
    \/ \E a \in RecInputs :
          /\ DictLen(tasks) < MaxRecTasks
          /\ AddTask(a[1], a[2], a[3], a[4], now)
    \/ \E status \in Statuses : GetTasks(status)
    \/ \E task_id \in RecCompleteIds : CompleteTask(task_id, now)
    \/ \E date \in Dates : GetTaskRecommendations(date, now)

SpecRec == Init /\ [][NextRec]_vars

\* ---------------------------------------------------------------- properties
IsCall(name) == op.name = name

Succeeded == ret.raised = "none"

\* where in the creation history the task with this id was created
CreatedPos(id) == CHOOSE k \in 1..Len(issued) : issued[k].task.id = id

PendingIds == {tasks[i].key : i \in {j \in 1..Len(tasks) : tasks[j].val.status = "pending"}}

\* C1: every add_task call returned "task_" followed by (number of tasks in
\* the store before the call + 1), and no two add_task calls returned the
\* same id.
C1_UniqueIds ==
    /\ \A i \in 1..Len(issued) :
          /\ issued[i].task.id = "task_" \o ToString(issued[i].before + 1)
          /\ \A j \in 1..Len(issued) :
                i # j => issued[i].task.id # issued[j].task.id
    /\ IsCall("add_task") =>
          /\ Succeeded
          /\ ret.value = issued[Len(issued)].task

C1_Witness ==
    /\ IsCall("add_task")
    /\ Len(issued) >= 3
    /\ completedIds # {}

\* C2: get_tasks("all") returns exactly one record per task created so far,
\* none missing, none extra, none duplicated, in creation order, whether or
\* not tasks have been completed in between.
SameCreation(r, c) ==
    /\ r.id = c.id
    /\ r.title = c.title
    /\ r.description = c.description
    /\ r.due_date = c.due_date
    /\ r.priority = c.priority
    /\ r.created_at = c.created_at

C2_AllInCreationOrder ==
    LET all == TasksWithStatus(tasks, "all")
    IN  /\ Len(all) = Len(issued)
        /\ \A i \in 1..Len(all) : SameCreation(all[i], issued[i].task)
        /\ \A i, j \in 1..Len(all) : i # j => all[i].id # all[j].id
        /\ (IsCall("get_tasks") /\ op.arg = "all") => ret = Return(all)

C2_Witness ==
    /\ IsCall("get_tasks")
    /\ op.arg = "all"
    /\ Len(ret.value) >= 2
    /\ ret.value[1].status = "completed"
    /\ ret.value[2].status = "pending"

\* C3: complete_task with an id that is not a key of the store returns
\* {error: "Task not found"} and leaves the store as it was.
C3_NotFound ==
    [][ (op'.name = "complete_task" /\ ~DictHas(tasks, op'.arg)) =>
            /\ ret' = Return([error |-> "Task not found"])
            /\ tasks' = tasks ]_vars

C3_Witness ==
    /\ IsCall("complete_task")
    /\ ~DictHas(tasks, op.arg)
    /\ "error" \in DOMAIN ret.value
    /\ Len(tasks) >= 2
    /\ completedIds # {}

\* C4: complete_task on a pending task returns that task's record with
\* status completed and completed_at set, and no get_tasks("pending") made
\* afterwards contains a task that complete_task has completed.
C4_CompleteStep ==
    (op'.name = "complete_task" /\ DictHas(tasks, op'.arg)
        /\ DictGet(tasks, op'.arg).status = "pending") =>
    /\ ret'.raised = "none"
    /\ SameCreation(ret'.value, DictGet(tasks, op'.arg))
    /\ ret'.value.id = op'.arg
    /\ ret'.value.status = "completed"
    /\ ret'.value.completed_at # None

C4_PendingExcludes ==
    /\ \A i \in 1..Len(TasksWithStatus(tasks, "pending")) :
          TasksWithStatus(tasks, "pending")[i].id \notin completedIds
    /\ (IsCall("get_tasks") /\ op.arg = "pending") =>
          ret = Return(TasksWithStatus(tasks, "pending"))

C4_CompleteThenPending == [][C4_CompleteStep]_vars /\ []C4_PendingExcludes

C4_Witness ==
    /\ IsCall("get_tasks")
    /\ op.arg = "pending"
    /\ completedIds # {}
    /\ Len(ret.value) >= 1
    /\ Len(ret.value) < Len(tasks)

\* C5: with every priority in {high, medium, low}, get_task_recommendations
\* returns at most 5 entries; of any two entries the earlier has the lower
\* priority rank, or the same rank and the string-smaller due_date, or the
\* same rank and due_date and the earlier creation; and the entries are the
\* first of all pending tasks in that order.
AllPrioritiesValid ==
    \A i \in 1..Len(tasks) : tasks[i].val.priority \in {"high", "medium", "low"}

RankOf(id) ==
    LET p == issued[CreatedPos(id)].task.priority
    IN  IF p = "high" THEN 0 ELSE IF p = "medium" THEN 1 ELSE 2

DueOf(id) == issued[CreatedPos(id)].task.due_date

ComesBefore(a, b) ==
    \/ RankOf(a) < RankOf(b)
    \/ RankOf(a) = RankOf(b) /\ StrLess(DueOf(a), DueOf(b))
    \/ RankOf(a) = RankOf(b) /\ DueOf(a) = DueOf(b) /\ CreatedPos(a) < CreatedPos(b)

C5_TopFiveInOrder ==
    (IsCall("get_task_recommendations") /\ AllPrioritiesValid) =>
    /\ Succeeded
    /\ LET r == ret.value.recommended_tasks
           chosen == {r[i].task_id : i \in 1..Len(r)}
       IN  /\ Len(r) <= 5
           /\ Len(r) = Min(5, Cardinality(PendingIds))
           /\ chosen \subseteq PendingIds
           /\ \A i, j \in 1..Len(r) : i < j => ComesBefore(r[i].task_id, r[j].task_id)
           /\ \A a \in chosen, b \in PendingIds \ chosen : ComesBefore(a, b)
           /\ \A i \in 1..Len(r) :
                 /\ r[i].priority = issued[CreatedPos(r[i].task_id)].task.priority
                 /\ r[i].due_date = DueOf(r[i].task_id)
                 /\ r[i].title = issued[CreatedPos(r[i].task_id)].task.title

C5_Witness ==
    /\ IsCall("get_task_recommendations")
    /\ Succeeded
    /\ Cardinality(PendingIds) > 5
    /\ Len(ret.value.recommended_tasks) = 5
    /\ \E a \in PendingIds, b \in PendingIds :
          a # b /\ RankOf(a) = RankOf(b) /\ DueOf(a) = DueOf(b)
    /\ \E a \in PendingIds, b \in PendingIds :
          RankOf(a) = RankOf(b) /\ DueOf(a) # DueOf(b)
    /\ \E a \in PendingIds, b \in PendingIds : RankOf(a) # RankOf(b)

\* C6: every entry get_task_recommendations returns names a task that is
\* pending at the time of the call, and never one that complete_task has
\* completed.
C6_OnlyPending ==
    (IsCall("get_task_recommendations") /\ Succeeded) =>
    \A i \in 1..Len(ret.value.recommended_tasks) :
        LET id == ret.value.recommended_tasks[i].task_id
        IN  /\ DictHas(tasks, id)
            /\ DictGet(tasks, id).status = "pending"
            /\ id \notin completedIds

C6_Witness ==
    /\ IsCall("get_task_recommendations")
    /\ Succeeded
    /\ completedIds # {}
    /\ Len(ret.value.recommended_tasks) >= 2

\* C7: get_task_recommendations never fails, whatever strings add_task was
\* given: it returns a {date, recommended_tasks} result, with an empty list
\* for an empty store.
C7_NeverFails ==
    IsCall("get_task_recommendations") =>
    /\ Succeeded
    /\ DOMAIN ret.value = {"date", "recommended_tasks"}
    /\ tasks = <<>> => ret.value.recommended_tasks = <<>>

\* C8: for every task in the store, status is pending or completed, and
\* completed_at is set if and only if status is completed.
C8_CompletedAtIffCompleted ==
    \A i \in 1..Len(tasks) :
        /\ tasks[i].val.status \in {"pending", "completed"}
        /\ tasks[i].val.completed_at # None <=> tasks[i].val.status = "completed"

C8_Witness ==
    /\ \E i \in 1..Len(tasks) : tasks[i].val.status = "completed"
    /\ \E i \in 1..Len(tasks) : tasks[i].val.status = "pending"
    /\ IsCall("complete_task")

\* C9: no operation changes id, title, description, due_date, priority or
\* created_at of an existing task; add_task, get_tasks and
\* get_task_recommendations change no field of an existing task;
\* complete_task changes at most status and completed_at of the task it
\* names; a completed task never returns to pending.
C9_FrameStep ==
    /\ Len(tasks') >= Len(tasks)
    /\ \A i \in 1..Len(tasks) :
          /\ tasks'[i].key = tasks[i].key
          /\ SameCreation(tasks'[i].val, tasks[i].val)
          /\ tasks[i].val.status = "completed" => tasks'[i].val.status = "completed"
          /\ op'.name \in {"add_task", "get_tasks", "get_task_recommendations"} =>
                tasks'[i] = tasks[i]
          /\ (op'.name = "complete_task" /\ tasks[i].key # op'.arg) =>
                tasks'[i] = tasks[i]
    /\ op'.name = "complete_task" => Len(tasks') = Len(tasks)

C9_Frame == [][C9_FrameStep]_vars

C9_Witness ==
    /\ IsCall("complete_task")
    /\ Succeeded
    /\ "error" \notin DOMAIN ret.value
    /\ Len(tasks) >= 2
    /\ \E i \in 1..Len(tasks) : tasks[i].val.status = "pending"
    /\ now > 0

\* C10: once a task's completed_at has a value, no later operation changes
\* that value.
C10_StampedOnce ==
    [][ \A i \in 1..Len(tasks) :
            tasks[i].val.completed_at # None =>
                tasks'[i].val.completed_at = tasks[i].val.completed_at ]_vars

====
